---- MODULE Spec2Model ----
(***************************************************************************)
(* rifsaugmentation: augment_all (augment_all.py), the three augmentation  *)
(* classes (augmentation.py) and load_wav_with_checks (utils.py).          *)
(*                                                                         *)
(* Samples are integers.  Lengths of rooms are in decimetres so that the   *)
(* supports of the truncated normals (2.2 m .. 10 m) are integers.         *)
(***************************************************************************)
EXTENDS Integers, Sequences, FiniteSets, TLC

\* ------------------------------------------------------------------ bounds

\* Longest signal handed to an augmentation called on its own.
MaxLen == 3

\* Largest sample value of such a signal (samples range over 0..MaxSample).
MaxSample == 1

\* The normal draw of the noise gain ranges over -MaxDraw..MaxDraw.
MaxDraw == 2

\* ------------------------------------------------------- program constants

\* librosa.load(filename, sr=16_000, mono=True)
SampleRate == 16000

\* RoomSimulationAugmentation(n=100) in augment_all
RoomPoolSize == 100

\* ----------------------------------------------------------------- helpers

Abs(x) == IF x < 0 THEN -x ELSE x

Range(s) == {s[i] : i \in 1..Len(s)}

\* All sequences over S of length lo..hi.
SeqsOf(S, lo, hi) == UNION {[1..n -> S] : n \in lo..hi}

\* ------------------------------------------------------------- numpy model

\* A roll towards the front: the first `shift mod n` elements move to the end.
NpRollLeft(a, shift) ==
    LET n == Len(a)
        k == IF n = 0 THEN 0 ELSE shift % n
    IN  IF k = 0 THEN a
        ELSE SubSeq(a, k + 1, n) \o SubSeq(a, 1, k)

\* np.roll(a, shift) on a 1-D array: the last `shift mod n` elements move to
\* the front (numpy slices a[-shift:] and a[:-shift] into a fresh array).
NpRoll(a, shift) ==
    LET n == Len(a)
        k == IF n = 0 THEN 0 ELSE shift % n
    IN  IF k = 0 THEN a
        ELSE SubSeq(a, n - k + 1, n) \o SubSeq(a, 1, n - k)

\* `reps` copies of a, concatenated.
RECURSIVE Tile(_, _)
Tile(a, reps) == IF reps <= 0 THEN <<>> ELSE a \o Tile(a, reps - 1)

\* np.resize(a, new_size) on a non-empty 1-D array:
\*   repeats = -(-new_size // a.size); concatenate((a,) * repeats)[:new_size]
NpResize(a, new_size) ==
    LET repeats == (new_size + Len(a) - 1) \div Len(a)
    IN  SubSeq(Tile(a, repeats), 1, new_size)

\* a + b * factor, element-wise, on arrays of equal length.
NpAddScaled(a, b, factor) == [i \in 1..Len(a) |-> a[i] + b[i] * factor]

\* np.convolve(a, h) (full): the response of the room to the source signal.
RECURSIVE ConvSum(_, _, _, _)
ConvSum(a, h, i, j) ==
    IF j > Len(h) THEN 0
    ELSE (IF i - j + 1 >= 1 /\ i - j + 1 <= Len(a) THEN a[i - j + 1] * h[j] ELSE 0)
         + ConvSum(a, h, i, j + 1)

Convolve(a, h) ==
    IF Len(a) = 0 \/ Len(h) = 0 THEN <<>>
    ELSE [i \in 1..(Len(a) + Len(h) - 1) |-> ConvSum(a, h, i, 1)]

\* Python's round(p / q) for p >= 0, q > 0: to nearest, ties to even.
RoundDiv(p, q) ==
    LET f == p \div q
        r == p % q
    IN  IF 2 * r < q THEN f
        ELSE IF 2 * r > q THEN f + 1
        ELSE IF f % 2 = 0 THEN f ELSE f + 1

\* ---------------------------------------------------------------- utils.py

\* A wav file on disk, as librosa decodes it: readable or not, and the mono
\* 16 kHz samples librosa.load returns for it.
UnreadableWav == [readable |-> FALSE, samples |-> <<>>]
Wav(samples) == [readable |-> TRUE, samples |-> samples]

\* librosa.load(filename, sr=16_000, mono=True): raises on a file it cannot
\* decode; otherwise resamples to sr and mixes down to one channel, so the
\* rate it returns is sr and the array is 1-D.
LibrosaLoad(file) ==
    IF ~file.readable
    THEN [raised |-> "LoadError"]
    ELSE [raised |-> "", audio |-> file.samples, sample_rate |-> SampleRate, ndim |-> 1]

\* load_wav_with_checks: the load, then the three asserts.
load_wav_with_checks(file) ==
    LET r == LibrosaLoad(file)
    IN  IF r.raised # "" THEN [raised |-> r.raised]
        ELSE IF r.sample_rate # SampleRate THEN [raised |-> "AssertionError"]
        ELSE IF r.ndim # 1 THEN [raised |-> "AssertionError"]
        ELSE IF ~(Len(r.audio) > 0) THEN [raised |-> "AssertionError"]
        ELSE [raised |-> "", audio |-> r.audio, sample_rate |-> r.sample_rate]

\* ------------------------------------------------------- NoiseAugmentation

\* The directories a noise_path may name, each with the wav files
\* glob(join(noise_path, "**/*.wav"), recursive=True) finds in it.
NoiseDirs ==
    [empty_dir |-> <<>>,
     noise     |-> <<Wav(<<1, 2, 3>>), Wav(<<4, 5>>)>>,
     bad_noise |-> <<Wav(<<1>>), UnreadableWav>>]

\* Arrays live in a store, address -> contents; a list of arrays is a list of
\* addresses.  Alloc puts a fresh array into the store.
EmptyStore == [a \in {} |-> <<>>]

Alloc(st, arr) ==
    LET new == Cardinality(DOMAIN st) + 1
    IN  [store |-> [a \in DOMAIN st \cup {new} |-> IF a = new THEN arr ELSE st[a]],
         ref   |-> new]

\* Arrays no longer referenced are dropped when a call returns.
Collect(st, refs) == [a \in DOMAIN st \cap refs |-> st[a]]

\* NoiseAugmentation.__init__: load every file found, append it to
\* noise_audios, then assert that the list is not empty.
RECURSIVE LoadNoiseFiles(_, _, _)
LoadNoiseFiles(files, st, refs) ==
    IF files = <<>> THEN [raised |-> "", store |-> st, noise_audios |-> refs]
    ELSE LET r == load_wav_with_checks(Head(files))
         IN  IF r.raised # "" THEN [raised |-> r.raised, store |-> st, noise_audios |-> refs]
             ELSE LET a == Alloc(st, r.audio)
                  IN  LoadNoiseFiles(Tail(files), a.store, Append(refs, a.ref))

NoiseInit(noise_path) ==
    LET r == LoadNoiseFiles(NoiseDirs[noise_path], EmptyStore, <<>>)
    IN  IF r.raised # "" THEN r
        ELSE IF ~(Len(r.noise_audios) > 0)
             THEN [raised |-> "AssertionError", store |-> r.store, noise_audios |-> r.noise_audios]
        ELSE r

\* The draws of one call: the clip random.choice picks (an index into
\* noise_audios), the shift np.random.randint(0, len(noise)) returns and the
\* value np.random.normal(mu, sd) returns.
NoiseDraws(st, refs) ==
    UNION {{[choice |-> c, shift |-> k, normal |-> d] :
                k \in 0..(Len(st[refs[c]]) - 1), d \in -MaxDraw..MaxDraw} :
           c \in 1..Len(refs)}

\* A roll that shifts the chosen array itself instead of a copy of it.
RollInPlace(st, ref, shift) ==
    [store |-> [st EXCEPT ![ref] = NpRoll(st[ref], shift)], ref |-> ref]

\* noise = np.roll(noise, shift): a fresh array; the argument is left as it is.
Roll(st, ref, shift) == Alloc(st, NpRoll(st[ref], shift))

\* noise = np.resize(noise, n): a fresh array again.
Resize(st, ref, n) == Alloc(st, NpResize(st[ref], n))

\* NoiseAugmentation.__call__ with the draws d: the signal returned and the
\* store the call leaves behind.
NoiseCall(st, refs, audio, d) ==
    LET noise0 == refs[d.choice]
        r1     == Roll(st, noise0, d.shift)
        r2     == Resize(r1.store, r1.ref, Len(audio))
        factor == Abs(d.normal)
    IN  [out   |-> NpAddScaled(audio, r2.store[r2.ref], factor),
         store |-> Collect(r2.store, Range(refs))]

\* --------------------------------------------- RoomSimulationAugmentation

\* _truncated_normal(mean, sd, min, max): a value of the support [min, max];
\* the two ends of the support stand for it.
TruncatedNormalDraws(mean, sd, min, max) == {min, max}

\* np.random.uniform(0, high): a value of [0, high); 0 (a point on a wall)
\* and 1 (a point off it) stand for it.
UniformDraws(high) == {x \in {0, 1} : x < high}

\* pra.ShoeBox(room_dim, ...): a room without sources or microphones.
ShoeBox(room_dim) == [shoebox_dim |-> room_dim, sources |-> <<>>, mics |-> <<>>]

NoRoom == [shoebox_dim |-> <<>>, sources |-> <<>>, mics |-> <<>>]

\* _generate_cuboid_room / _generate_room: the rooms one call may return.
\* rt60 only sets the absorption and the reflection order of the room, which
\* nothing below reads.
GenerateRooms ==
    {ShoeBox(<<length, width, height>>) :
        length \in TruncatedNormalDraws(60, 30, 30, 100),
        width  \in TruncatedNormalDraws(50, 20, 30, 100),
        height \in TruncatedNormalDraws(24, 6, 22, 50)}

\* The pool __init__ samples after np.random.seed(42): the same n rooms at
\* every construction.
SeededRoom(i) ==
    ShoeBox(<<IF i % 2 = 0 THEN 30 ELSE 100, IF i % 3 = 0 THEN 30 ELSE 100, 22>>)

\* RoomSimulationAugmentation.__init__(n)
RoomInit(n) ==
    IF ~(n > 0) THEN [raised |-> "AssertionError", rooms |-> <<>>]
    ELSE [raised |-> "", rooms |-> [i \in 1..n |-> SeededRoom(i)]]

\* The candidate locations _get_random_location draws for a room.
Locations(rm) ==
    {<<x, y, z>> : x \in UniformDraws(rm.shoebox_dim[1]),
                   y \in UniformDraws(rm.shoebox_dim[2]),
                   z \in UniformDraws(rm.shoebox_dim[3])}

StrictlyInside(rm, loc) ==
    \A i \in 1..3 : 0 < loc[i] /\ loc[i] < rm.shoebox_dim[i]

Outside(rm, loc) ==
    \E i \in 1..3 : loc[i] < 0 \/ loc[i] > rm.shoebox_dim[i]

\* room.is_inside(location): pyroomacoustics casts a ray to a random point
\* outside the room and counts the walls it crosses.  The verdict is certain
\* off the walls; for a point on a wall it rests on a floating-point
\* tolerance, and both verdicts are taken as possible.
IsInsideVerdicts(rm, loc) ==
    IF StrictlyInside(rm, loc) THEN {TRUE}
    ELSE IF Outside(rm, loc) THEN {FALSE}
    ELSE BOOLEAN

\* _get_random_location(room): the location returned, or the assertion on
\* the inside-room check failing.
GetRandomLocation(rm) ==
    UNION {{[raised |-> IF v THEN "" ELSE "AssertionError", location |-> loc] :
                v \in IsInsideVerdicts(rm, loc)} :
           loc \in Locations(rm)}

\* The exceptions the library calls of one loop iteration may end with
\* besides returning ("" is a normal return).  The loop is written against
\* AttributeError.
LibraryOutcomes == {"", "AttributeError"}

\* One iteration of the `while True` loop of __call__ once _generate_room has
\* returned, up to the `break`, the `continue` of the handler, or an exception
\* the handler does not catch: what ended it and the value of the local
\* `room` then.
PlacementOutcomes ==
    LET afterSource(rm) ==
            UNION {IF s.raised # "" THEN {[raised |-> s.raised, room |-> rm]}
                   ELSE {[raised |-> e,
                          room   |-> IF e = "" THEN [rm EXCEPT !.sources = Append(@, s.location)]
                                     ELSE rm] : e \in LibraryOutcomes} :
                   s \in GetRandomLocation(rm)}
        afterMic(o) ==
            IF o.raised # "" THEN {o}
            ELSE UNION {IF m.raised # "" THEN {[raised |-> m.raised, room |-> o.room]}
                        ELSE {[raised |-> e,
                               room   |-> IF e = "" THEN [o.room EXCEPT !.mics = Append(@, m.location)]
                                          ELSE o.room] : e \in LibraryOutcomes} :
                        m \in GetRandomLocation(o.room)}
    IN  UNION {UNION {afterMic(o) : o \in afterSource(rm)} : rm \in GenerateRooms}

\* One iteration from its start; `old` is the value of `room` before it, which
\* stays when _generate_room itself raises.
AttemptOutcomes(old) ==
    {[raised |-> e, room |-> old] : e \in LibraryOutcomes \ {""}} \cup PlacementOutcomes

\* How an iteration may end when the call has just been entered.
AttemptEndings == {o.raised : o \in AttemptOutcomes(NoRoom)}

\* The handler: `except AttributeError: continue`.
Caught(raised) == raised = "AttributeError"

\* delay=0.5 of add_source, in samples of the model.
DelaySamples == 1

\* The impulse responses room.simulate() may compute between the source and
\* the microphone: the direct path alone, or with one reflection.
ImpulseResponses == {<<1>>, <<1, 1>>}

\* room.simulate(); room.mic_array.signals[0] for the source signal `audio`
\* and the impulse response h.
Simulate(audio, h) == Convolve([i \in 1..DelaySamples |-> 0] \o audio, h)

\* --------------------------------------------------- ModifySpeedAugmentation

\* ModifySpeedAugmentation.__init__(speed): stores the rate, checks nothing.
SpeedInit(sp) == [raised |-> "", speed |-> sp]

\* librosa.effects.time_stretch(audio_array, rate=speed): rejects a rate that
\* is not positive; the result has round(len / rate) samples, taken here from
\* the input at the stretched positions (the phase vocoder itself is not
\* modelled).
TimeStretch(audio, rate) ==
    IF rate <= 0 THEN [raised |-> "ParameterError", out |-> <<>>]
    ELSE LET n == RoundDiv(Len(audio), rate)
         IN  [raised |-> "",
              out    |-> [i \in 1..n |->
                            audio[IF (i - 1) * rate + 1 > Len(audio) THEN Len(audio)
                                  ELSE (i - 1) * rate + 1]]]

\* ------------------------------------------------------- the source directory

\* A path is the sequence of its components below source_path; <<>> is
\* source_path itself.  A tree is the files and the directories below it.
Hidden(name) == name \in {".wav"}

\* fnmatch(name, "*.wav"): a leading dot is matched only by a literal dot.
MatchesStarWav(name) == name \in {"a.wav", "b.wav"}

\* fnmatch(name, "*")
MatchesStar(name) == ~Hidden(name)

Entries(tree) == tree.files \cup tree.dirs

Last(p) == p[Len(p)]

\* The components of p from the i-th to the one before the last.
DirsBetween(p, i) == {p[j] : j \in i..(Len(p) - 1)}

\* glob(f"{source_path}/**/*.wav", recursive): without `recursive` the `**`
\* is a `*` and stands for exactly one directory.
GlobWav(tree, recursive) ==
    IF recursive
    THEN {p \in Entries(tree) :
            /\ Len(p) >= 1
            /\ \A d \in DirsBetween(p, 1) : MatchesStar(d)
            /\ MatchesStarWav(Last(p))}
    ELSE {p \in Entries(tree) :
            /\ Len(p) = 2
            /\ MatchesStar(p[1])
            /\ MatchesStarWav(Last(p))}

\* glob(f"{source_path}/audio/**/.wav", recursive): files named ".wav".
GlobAudio(tree, recursive) ==
    IF recursive
    THEN {p \in Entries(tree) :
            /\ Len(p) >= 2
            /\ p[1] = "audio"
            /\ \A d \in DirsBetween(p, 2) : MatchesStar(d)
            /\ Last(p) = ".wav"}
    ELSE {p \in Entries(tree) :
            /\ Len(p) = 3
            /\ p[1] = "audio"
            /\ MatchesStar(p[2])
            /\ Last(p) = ".wav"}

\* glob(f"{source_path}/**", recursive): with `recursive`, source_path itself
\* and everything below it that is not hidden.
GlobAll(tree, recursive) ==
    IF recursive
    THEN {<<>>} \cup {p \in Entries(tree) : \A i \in 1..Len(p) : MatchesStar(p[i])}
    ELSE {p \in Entries(tree) : Len(p) = 1 /\ MatchesStar(p[1])}

\* The orders in which a glob, or list(set(...)), may return a set of paths.
Orders(S) ==
    {q \in [1..Cardinality(S) -> S] : \A i, j \in 1..Cardinality(S) : q[i] = q[j] => i = j}

\* The source trees of the model.
Trees ==
    { [files |-> {}, dirs |-> {}],
      [files |-> {<<"a.wav">>, <<"sub", "b.wav">>, <<"notes.txt">>},
       dirs  |-> {<<"sub">>}],
      [files |-> {<<"sub", "a.wav">>, <<"sub", "b.wav">>},
       dirs  |-> {<<"sub">>}],
      [files |-> {<<"audio", "a.wav">>, <<"audio", ".wav">>},
       dirs  |-> {<<"audio">>}] }

\* What a wav file of a source tree may hold.
WavContents == {UnreadableWav, Wav(<<>>), Wav(<<1, 2>>)}

WavFiles(tree) == {p \in tree.files : MatchesStarWav(Last(p))}

\* ------------------------------------------------------------------- state

VARIABLES
    cfg,            \* the arguments of augment_all (noise_path "" is None)
    tree,           \* the directory tree below source_path
    fdata,          \* what each wav file of the tree holds
    pc,             \* where the run, or the call of an augmentation, stands
    error,          \* the exception that ended it, and where it was raised
    filenames,      \* augment_all: the list of files to augment
    audio_files,    \* augment_all: the files of the audio folder to skip
    augments,       \* augment_all: the augmentations, in order of application
    file_i,         \* position of `for filename in filenames`
    aug_i,          \* position of `for augmentation in augments`
    audio_array,    \* the signal in hand
    sr,             \* its sample rate
    target,         \* the files below target_path
    loads,          \* the source files load_wav_with_checks was called on
    log,            \* the augmentations applied: file, augmentation, input, output
    rooms,          \* RoomSimulationAugmentation.rooms
    speed,          \* ModifySpeedAugmentation.speed
    store,          \* the arrays NoiseAugmentation references
    noise_audios,   \* NoiseAugmentation.noise_audios
    room,           \* RoomSimulationAugmentation.__call__: the local `room`
    call            \* the draws and the result of the last call of an augmentation

vars == <<cfg, tree, fdata, pc, error, filenames, audio_files, augments, file_i,
          aug_i, audio_array, sr, target, loads, log, rooms, speed, store,
          noise_audios, room, call>>

runVars == <<filenames, audio_files, augments, file_i, aug_i, sr, target, loads, log>>
inputVars == <<cfg, tree, fdata>>

NoError == [exc |-> "", at |-> ""]
NoCall == [op |-> ""]
EmptyTarget == [p \in {} |-> <<>>]

\* The values speed takes: a rate that is not positive, the rate that leaves
\* the tempo alone, and a faster one.
Speeds == {0, 1, 2}

Configs ==
    [with_room_simulation : BOOLEAN,
     speed                : Speeds,
     noise_path           : {"", "empty_dir", "noise"},
     recursive            : BOOLEAN,
     move_other_files     : BOOLEAN,
     skip_audio_folder    : BOOLEAN]

\* ------------------------------------------------------------- augment_all

\* The room simulation built whatever with_room_simulation says.
EnabledRoomAlways(c, tag) ==
    CASE tag = "room"  -> TRUE
      [] tag = "noise" -> c.noise_path # ""
      [] tag = "speed" -> c.speed # 1

\* The three `if`s that decide which augmentations are built.
Enabled(c, tag) ==
    CASE tag = "room"  -> c.with_room_simulation
      [] tag = "noise" -> c.noise_path # ""
      [] tag = "speed" -> c.speed # 1

NoPipeline ==
    [raised |-> "", augments |-> <<>>, rooms |-> <<>>, speed |-> 1,
     store |-> EmptyStore, noise_audios |-> <<>>]

\* Builds the augmentations named by `tags`, in that order, each if it is
\* enabled; stops at the first constructor that raises.
RECURSIVE Construct(_, _, _)
Construct(c, tags, acc) ==
    IF tags = <<>> THEN acc
    ELSE IF ~Enabled(c, Head(tags)) THEN Construct(c, Tail(tags), acc)
    ELSE LET tag  == Head(tags)
             next == [acc EXCEPT !.augments = Append(@, tag)]
         IN  CASE tag = "room" ->
                    LET r == RoomInit(RoomPoolSize)
                    IN  IF r.raised # "" THEN [acc EXCEPT !.raised = r.raised]
                        ELSE Construct(c, Tail(tags), [next EXCEPT !.rooms = r.rooms])
               [] tag = "noise" ->
                    LET r == NoiseInit(c.noise_path)
                    IN  IF r.raised # "" THEN [acc EXCEPT !.raised = r.raised]
                        ELSE Construct(c, Tail(tags),
                                       [next EXCEPT !.store = r.store,
                                                    !.noise_audios = r.noise_audios])
               [] tag = "speed" ->
                    LET r == SpeedInit(c.speed)
                    IN  IF r.raised # "" THEN [acc EXCEPT !.raised = r.raised]
                        ELSE Construct(c, Tail(tags), [next EXCEPT !.speed = r.speed])

\* The noise augmentation built before the room simulation.
BuildAugmentsNoiseFirst(c) == Construct(c, <<"noise", "room", "speed">>, NoPipeline)

\* augments = []; room simulation, then noise, then speed.
BuildAugments(c) == Construct(c, <<"room", "noise", "speed">>, NoPipeline)

\* filenames and audio_files as the first lines of augment_all compute them.
AudioFiles(c, t) == IF c.skip_audio_folder THEN GlobAudio(t, c.recursive) ELSE {}

Discovered(c, t) ==
    IF c.skip_audio_folder
    THEN GlobWav(t, c.recursive) \ GlobAudio(t, c.recursive)
    ELSE GlobWav(t, c.recursive)

\* other_files of the move_other_files branch.
OtherFiles(c, t, audio, names) == (GlobAll(t, c.recursive) \ audio) \ Range(names)

\* os.copy(filename, target): the os module has no attribute `copy`.
OsCopy(tgt, p) == [raised |-> "AttributeError", target |-> tgt]

\* sf.write(target, audio_array, sr): the signal and the rate handed to the
\* writer.
Written(audio, rate) == [data |-> audio, sr |-> rate]

Raise(exc, at) ==
    /\ pc' = "raised"
    /\ error' = [exc |-> exc, at |-> at]

\* From the call to the start of the loop over the files: the files are
\* discovered, target_path is made, the augmentations are built.
Start ==
    /\ pc = "start"
    /\ \E order \in Orders(Discovered(cfg, tree)) :
          LET built == BuildAugments(cfg)
          IN  /\ filenames' = order
              /\ audio_files' = AudioFiles(cfg, tree)
              /\ augments' = built.augments
              /\ rooms' = built.rooms
              /\ speed' = built.speed
              /\ store' = built.store
              /\ noise_audios' = built.noise_audios
              /\ IF built.raised # ""
                 THEN Raise(built.raised, "construct")
                 ELSE pc' = "loop" /\ UNCHANGED error
    /\ UNCHANGED <<inputVars, file_i, aug_i, audio_array, sr, target, loads, log, room, call>>

\* `for filename in filenames`: the next file is loaded.
LoadFile ==
    /\ pc = "loop"
    /\ file_i <= Len(filenames)
    /\ LET f == filenames[file_i]
           r == load_wav_with_checks(fdata[f])
       IN  /\ loads' = Append(loads, f)
           /\ IF r.raised # ""
              THEN /\ Raise(r.raised, "load")
                   /\ UNCHANGED <<audio_array, sr, aug_i>>
              ELSE /\ pc' = "augment"
                   /\ audio_array' = r.audio
                   /\ sr' = r.sample_rate
                   /\ aug_i' = 1
                   /\ UNCHANGED error
    /\ UNCHANGED <<inputVars, filenames, audio_files, augments, file_i, target, log,
                   rooms, speed, store, noise_audios, room, call>>

\* audio_array = augmentation(audio_array) returned `out`.
Applied(out) ==
    /\ audio_array' = out
    /\ aug_i' = aug_i + 1
    /\ log' = Append(log, [file |-> filenames[file_i], aug |-> augments[aug_i],
                           input |-> audio_array, output |-> out])
    /\ UNCHANGED <<pc, error>>

AtAugmentation(tag) ==
    /\ pc = "augment"
    /\ aug_i <= Len(augments)
    /\ augments[aug_i] = tag

\* The room simulation of the file in hand, one iteration of its loop: the
\* iteration ends the call with the simulated signal or with an exception, or
\* the loop starts over.  The locals of the call are not kept.
ApplyRoom ==
    /\ AtAugmentation("room")
    /\ \E raised \in AttemptEndings :
          IF raised = ""
          THEN \E h \in ImpulseResponses : Applied(Simulate(audio_array, h))
          ELSE IF Caught(raised)
          THEN UNCHANGED <<pc, error, audio_array, aug_i, log>>
          ELSE Raise(raised, "augment") /\ UNCHANGED <<audio_array, aug_i, log>>
    /\ UNCHANGED <<inputVars, filenames, audio_files, augments, file_i, sr, target, loads,
                   rooms, speed, store, noise_audios, room, call>>

ApplyNoise ==
    /\ AtAugmentation("noise")
    /\ \E d \in NoiseDraws(store, noise_audios) :
          LET r == NoiseCall(store, noise_audios, audio_array, d)
          IN  /\ store' = r.store
              /\ Applied(r.out)
    /\ UNCHANGED <<inputVars, filenames, audio_files, augments, file_i, sr, target, loads,
                   rooms, speed, noise_audios, room, call>>

ApplySpeed ==
    /\ AtAugmentation("speed")
    /\ LET r == TimeStretch(audio_array, speed)
       IN  IF r.raised # ""
           THEN Raise(r.raised, "augment") /\ UNCHANGED <<audio_array, aug_i, log>>
           ELSE Applied(r.out)
    /\ UNCHANGED <<inputVars, filenames, audio_files, augments, file_i, sr, target, loads,
                   rooms, speed, store, noise_audios, room, call>>

\* The file is written when the last augmentation is still to be applied.
AugmentationsDoneEarly == aug_i >= Len(augments)

\* The loop over the augmentations is through.
AugmentationsDone == aug_i > Len(augments)

\* The file in hand is written below target_path; on to the next file.
WriteFile ==
    /\ pc = "augment"
    /\ AugmentationsDone
    /\ target' = [p \in DOMAIN target \cup {filenames[file_i]} |->
                    IF p = filenames[file_i] THEN Written(audio_array, sr) ELSE target[p]]
    /\ file_i' = file_i + 1
    /\ pc' = "loop"
    /\ UNCHANGED <<inputVars, error, filenames, audio_files, augments, aug_i, audio_array,
                   sr, loads, log, rooms, speed, store, noise_audios, room, call>>

\* After the last file: the other files are copied if move_other_files is
\* set, and augment_all returns.
Finish ==
    /\ pc = "loop"
    /\ file_i > Len(filenames)
    /\ LET other == OtherFiles(cfg, tree, audio_files, filenames)
       IN  IF cfg.move_other_files /\ other # {}
           THEN \E p \in other :
                  LET r == OsCopy(target, p)
                  IN  /\ target' = r.target
                      /\ Raise(r.raised, "move")
           ELSE pc' = "done" /\ UNCHANGED <<error, target>>
    /\ UNCHANGED <<inputVars, filenames, audio_files, augments, file_i, aug_i, audio_array,
                   sr, loads, log, rooms, speed, store, noise_audios, room, call>>

Init ==
    /\ cfg \in Configs
    /\ tree \in Trees
    /\ fdata \in [WavFiles(tree) -> WavContents]
    /\ pc = "start"
    /\ error = NoError
    /\ filenames = <<>>
    /\ audio_files = {}
    /\ augments = <<>>
    /\ file_i = 1
    /\ aug_i = 1
    /\ audio_array = <<>>
    /\ sr = 0
    /\ target = EmptyTarget
    /\ loads = <<>>
    /\ log = <<>>
    /\ rooms = <<>>
    /\ speed = 1
    /\ store = EmptyStore
    /\ noise_audios = <<>>
    /\ room = NoRoom
    /\ call = NoCall

Next ==
    \/ Start
    \/ LoadFile
    \/ ApplyRoom
    \/ ApplyNoise
    \/ ApplySpeed
    \/ WriteFile
    \/ Finish

Spec == Init /\ [][Next]_vars

\* --------------------------- NoiseAugmentation, constructed and called directly

\* The signals an augmentation is called on.
Signals == SeqsOf(0..MaxSample, 1, MaxLen)

DefaultConfig ==
    [with_room_simulation |-> FALSE, speed |-> 1, noise_path |-> "",
     recursive |-> FALSE, move_other_files |-> FALSE, skip_audio_folder |-> FALSE]

IdleInit ==
    /\ tree = [files |-> {}, dirs |-> {}]
    /\ fdata = [p \in {} |-> UnreadableWav]
    /\ error = NoError
    /\ filenames = <<>>
    /\ audio_files = {}
    /\ augments = <<>>
    /\ file_i = 1
    /\ aug_i = 1
    /\ audio_array = <<>>
    /\ sr = 0
    /\ target = EmptyTarget
    /\ loads = <<>>
    /\ log = <<>>
    /\ rooms = <<>>
    /\ speed = 1
    /\ store = EmptyStore
    /\ noise_audios = <<>>
    /\ room = NoRoom
    /\ call = NoCall

NoiseHarnessInit ==
    /\ \E path \in DOMAIN NoiseDirs : cfg = [DefaultConfig EXCEPT !.noise_path = path]
    /\ pc = "noise_new"
    /\ IdleInit

\* NoiseAugmentation(noise_path)
NoiseConstruct ==
    /\ pc = "noise_new"
    /\ LET r == NoiseInit(cfg.noise_path)
       IN  /\ store' = r.store
           /\ noise_audios' = r.noise_audios
           /\ IF r.raised # ""
              THEN Raise(r.raised, "construct")
              ELSE pc' = "noise_ready" /\ UNCHANGED error
    /\ UNCHANGED <<inputVars, runVars, audio_array, rooms, speed, room, call>>

\* __call__ is entered with a signal a.
NoiseEnter ==
    /\ pc = "noise_ready"
    /\ \E a \in Signals : audio_array' = a
    /\ pc' = "noise_called"
    /\ call' = NoCall
    /\ UNCHANGED <<inputVars, runVars, error, rooms, speed, store, noise_audios, room>>

\* The call draws, mixes and returns.
NoiseApply ==
    /\ pc = "noise_called"
    /\ \E d \in NoiseDraws(store, noise_audios) :
          LET r == NoiseCall(store, noise_audios, audio_array, d)
          IN  /\ audio_array' = r.out
              /\ store' = r.store
              /\ call' = [op |-> "noise", input |-> audio_array, draws |-> d,
                          clip |-> store[noise_audios[d.choice]]]
    /\ pc' = "noise_ready"
    /\ UNCHANGED <<inputVars, runVars, error, rooms, speed, noise_audios, room>>

NextNoise ==
    \/ NoiseConstruct
    \/ NoiseEnter
    \/ NoiseApply

SpecNoise == NoiseHarnessInit /\ [][NextNoise]_vars

\* ------------------ RoomSimulationAugmentation, constructed and called directly

\* The pool sizes the augmentation is constructed with.
PoolSizes == {0, RoomPoolSize}

RoomHarnessInit ==
    /\ cfg = [DefaultConfig EXCEPT !.with_room_simulation = TRUE]
    /\ pc = "room_new"
    /\ IdleInit

\* RoomSimulationAugmentation(n)
RoomConstruct ==
    /\ pc = "room_new"
    /\ \E n \in PoolSizes :
          LET r == RoomInit(n)
          IN  /\ rooms' = r.rooms
              /\ IF r.raised # ""
                 THEN Raise(r.raised, "construct")
                 ELSE pc' = "room_idle" /\ UNCHANGED error
    /\ UNCHANGED <<inputVars, runVars, audio_array, speed, store, noise_audios, room, call>>

\* __call__ is entered with a signal a.
RoomEnter ==
    /\ pc = "room_idle"
    /\ \E a \in Signals :
          /\ audio_array' = a
          /\ call' = [op |-> "room", input |-> a]
    /\ room' = NoRoom
    /\ pc' = "room_trying"
    /\ UNCHANGED <<inputVars, runVars, error, rooms, speed, store, noise_audios>>

\* One iteration of the loop.
RoomAttempt ==
    /\ pc = "room_trying"
    /\ \E o \in AttemptOutcomes(room) :
          /\ room' = o.room
          /\ IF o.raised = "" THEN pc' = "room_placed" /\ UNCHANGED error
             ELSE IF Caught(o.raised) THEN UNCHANGED <<pc, error>>
             ELSE Raise(o.raised, "call")
    /\ UNCHANGED <<inputVars, runVars, audio_array, rooms, speed, store, noise_audios, call>>

\* After the loop: the simulation is run and the microphone signal returned.
RoomSimulate ==
    /\ pc = "room_placed"
    /\ \E h \in ImpulseResponses : audio_array' = Simulate(audio_array, h)
    /\ room' = NoRoom
    /\ pc' = "room_idle"
    /\ UNCHANGED <<inputVars, runVars, error, rooms, speed, store, noise_audios, call>>

NextRoom ==
    \/ RoomConstruct
    \/ RoomEnter
    \/ RoomAttempt
    \/ RoomSimulate

SpecRoom == RoomHarnessInit /\ [][NextRoom]_vars

\* The interpreter keeps executing the call: an iteration that can run does
\* run, and so does the code after the loop.
FairSpecRoom ==
    /\ RoomHarnessInit
    /\ [][NextRoom]_vars
    /\ WF_vars(RoomAttempt)
    /\ WF_vars(RoomSimulate)

\* ------------------------------------------------------------------ claims

\* The entries of the log that belong to file f, in the order of application.
LogOf(f) ==
    LET OfFile(e) == e.file = f
    IN  SelectSeq(log, OfFile)

\* The augmentations the arguments of the run ask for, room simulation first,
\* then noise, then speed.
ConfiguredOrder ==
    (IF cfg.with_room_simulation THEN <<"room">> ELSE <<>>)
    \o (IF cfg.noise_path # "" THEN <<"noise">> ELSE <<>>)
    \o (IF cfg.speed # 1 THEN <<"speed">> ELSE <<>>)

Loadable(f) == load_wav_with_checks(fdata[f]).raised = ""

Ended == pc \in {"done", "raised"}

\* C1: for every file the run has loaded, the augmentations applied to it so
\* far are the first ones of the configured order (room, noise, speed, those
\* enabled), each once; the first takes the loaded signal, each later one the
\* output of the one before; a file that is written went through all of them
\* and holds the output of the last; and the list of augmentations built at
\* the start is that order for as long as files are processed.
C1_FixedOrder ==
    /\ pc \in {"loop", "augment", "done"} => augments = ConfiguredOrder
    /\ \A f \in Range(loads) :
            LET es == LogOf(f)
            IN  /\ Len(es) <= Len(ConfiguredOrder)
                /\ \A i \in 1..Len(es) :
                      /\ es[i].aug = ConfiguredOrder[i]
                      /\ es[i].input = IF i = 1 THEN load_wav_with_checks(fdata[f]).audio
                                        ELSE es[i - 1].output
                /\ f \in DOMAIN target =>
                      /\ Len(es) = Len(ConfiguredOrder)
                      /\ target[f].data = IF es = <<>> THEN load_wav_with_checks(fdata[f]).audio
                                           ELSE es[Len(es)].output

\* Two files have been written by a run with all three augmentations.
C1_Witness ==
    /\ Len(ConfiguredOrder) = 3
    /\ Cardinality(DOMAIN target) = 2
    /\ Len(log) = 6

\* A pool size that is not positive, a speed that is not positive, or a
\* noise directory without clips.
InvalidStaticConfig ==
    \/ cfg.with_room_simulation /\ RoomPoolSize <= 0
    \/ cfg.speed <= 0
    \/ cfg.noise_path # "" /\ Len(NoiseDirs[cfg.noise_path]) = 0

\* C3: with an invalid static configuration the run fails while the
\* augmentations are built: no file is ever loaded, and an error that ends
\* the run is the error of a constructor.
C3_FailFast ==
    InvalidStaticConfig =>
        /\ loads = <<>>
        /\ pc = "raised" => error.at = "construct"

\* C5: when the run has ended and a load failed, every discovered file that
\* can be loaded has been written all the same.
C5_BadFileSkipped ==
    (Ended /\ error.at = "load") =>
        \A f \in Range(filenames) : Loadable(f) => f \in DOMAIN target

\* C6: a file below target_path is the output of a source file that was
\* loaded without error and went through every configured augmentation; the
\* file an exception was raised on is not written.
C6_NoOutputForFailedFile ==
    /\ \A f \in DOMAIN target :
          /\ f \in Range(loads)
          /\ Loadable(f)
          /\ Len(LogOf(f)) = Len(ConfiguredOrder)
    /\ (pc = "raised" /\ error.at \in {"load", "augment"}) =>
          filenames[file_i] \notin DOMAIN target

\* One file was written and the next one failed in an augmentation.
C6_Witness ==
    /\ pc = "raised"
    /\ error.at = "augment"
    /\ DOMAIN target # {}
    /\ filenames[file_i] \notin DOMAIN target

\* The files found under source_path that are not wav files.
FoundOtherFiles ==
    {p \in GlobAll(tree, cfg.recursive) \cap tree.files : p \notin WavFiles(tree) /\ ~Hidden(Last(p))}

\* C7: a run with move_other_files that found other files and got through
\* its wav files ends without error, with every other file it found copied
\* below target_path.
C7_OtherFilesCopied ==
    (/\ Ended
     /\ cfg.move_other_files
     /\ FoundOtherFiles # {}
     /\ error.at \notin {"construct", "load", "augment"}) =>
        /\ pc = "done"
        /\ \A p \in FoundOtherFiles : p \in DOMAIN target

\* C10: with no augmentation configured, every file written holds the signal
\* the loader returned for it, sample for sample.
C10_EmptyPipelineIdentity ==
    (~cfg.with_room_simulation /\ cfg.noise_path = "" /\ cfg.speed = 1) =>
        \A f \in DOMAIN target :
            /\ target[f].data = load_wav_with_checks(fdata[f]).audio
            /\ target[f].sr = load_wav_with_checks(fdata[f]).sample_rate

\* A run without augmentations has written two files.
C10_Witness ==
    /\ ~cfg.with_room_simulation /\ cfg.noise_path = "" /\ cfg.speed = 1
    /\ Cardinality(DOMAIN target) = 2

\* C2: the signal a call of the noise augmentation returns has the length of
\* its input, and its i-th sample (counted from 0) is the i-th input sample
\* plus gain times sample (i - k) mod L of the chosen clip, L the length of
\* the clip, k in [0, L) the shift drawn and gain >= 0 the gain drawn.
C2_NoiseMix ==
    call.op = "noise" =>
        LET L    == Len(call.clip)
            k    == call.draws.shift
            gain == Abs(call.draws.normal)
        IN  /\ k \in 0..(L - 1)
            /\ gain >= 0
            /\ Len(audio_array) = Len(call.input)
            /\ \A i \in 0..(Len(call.input) - 1) :
                  audio_array[i + 1] = call.input[i + 1] + gain * call.clip[((i - k) % L) + 1]

\* A clip shorter than the input, shifted and mixed in at a gain above 0.
C2_Witness ==
    /\ call.op = "noise"
    /\ Len(call.clip) < Len(call.input)
    /\ call.draws.shift > 0
    /\ call.draws.normal < 0

\* The clips of the noise directory, as loaded.
LoadedLibrary == [i \in 1..Len(NoiseDirs[cfg.noise_path]) |-> NoiseDirs[cfg.noise_path][i].samples]

\* C9: once constructed, the noise library (the list and what every clip of
\* it holds) is the one loaded from the noise directory, whatever calls were
\* made.
C9_LibraryUnchanged ==
    pc = "noise_ready" =>
        /\ Len(noise_audios) = Len(LoadedLibrary)
        /\ \A i \in 1..Len(noise_audios) : store[noise_audios[i]] = LoadedLibrary[i]

\* A call that shifted its clip has returned.
C9_Witness ==
    /\ pc = "noise_ready"
    /\ call.op = "noise"
    /\ call.draws.shift > 0

\* C4: a call of the room simulation that has been entered returns or raises.
C4_CallTerminates == (pc = "room_trying") ~> (pc \in {"room_idle", "raised"})

\* C8: a candidate location that fails the inside-room check does not fail
\* the call: the call never ends with the assertion of the check.
C8_Resampled == ~(pc = "raised" /\ error.at = "call" /\ error.exc = "AssertionError")

====
